---------------------------- MODULE Spec2Model ----------------------------
(***************************************************************************)
(* A model of the log analyser of src/main.py: JsonReader, DateReportFilter,*)
(* AverageReportGenerator, TableRender and the ReportEngine that composes   *)
(* them (read -> filter -> aggregate per file, then merge, then render).    *)
(*                                                                         *)
(* Conventions                                                             *)
(*  - A Python str that the code takes apart (a date criterion, a          *)
(*    timestamp) is a sequence of one-character strings.  The alphabet is  *)
(*    the decimal digits and "-", "T", ":", "a", "b", "c"; over it int()   *)
(*    accepts exactly the non-empty digit strings.                         *)
(*  - A Python dict is a record [keys, val]: keys is the insertion order   *)
(*    (a sequence without repetition), val maps each key to its value.     *)
(*  - A log record is a TLA+ record whose DOMAIN is the set of keys the    *)
(*    decoded JSON object has; dict.get is the operator Get.               *)
(*  - response times are whole numbers; an avg_response_time is held in    *)
(*    thousandths (150.0 is 150000), so round(x, 3) is a rounding of a     *)
(*    rational to an integer number of thousandths.  Binary floating point *)
(*    error is not modelled.                                               *)
(*  - A call returns [exc |-> <exception class or NoExc>, val |-> <value>].*)
(***************************************************************************)
EXTENDS Integers, Sequences, FiniteSets, TLC

(***************************************************************************)
(* Bounds of the model.                                                    *)
(***************************************************************************)
MaxFiles == 2
MaxLines == 2
MaxRecords == 4
MaxReports == 2
MaxTotal == 2

(***************************************************************************)
(* Python values.                                                          *)
(***************************************************************************)
NoExc == "NoExc"
None == "None"
\* None where the model holds a number (a response time that is absent).
NoneNum == -1
EmptyDict == [keys |-> <<>>, val |-> <<>>]

Ok(v) == [exc |-> NoExc, val |-> v]
Raise(e) == [exc |-> e, val |-> None]

RECURSIVE SeqSum(_)
SeqSum(s) == IF s = <<>> THEN 0 ELSE Head(s) + SeqSum(Tail(s))

Range(s) == {s[k] : k \in DOMAIN s}

\* All sequences over S of length at most n.
SeqsUpTo(S, n) == UNION {[1..k -> S] : k \in 0..n}

\* dict.get(key, default)
Get(d, key, default) == IF key \in DOMAIN d THEN d[key] ELSE default

\* d[key] = value on a dict: a new key goes last, an old key keeps its place.
DictSet(d, key, value) ==
  [keys |-> IF key \in Range(d.keys) THEN d.keys ELSE Append(d.keys, key),
   val |-> [k \in Range(d.keys) \cup {key} |-> IF k = key THEN value ELSE d.val[k]]]

(***************************************************************************)
(* str, int() and datetime.date                                            *)
(***************************************************************************)
DigitChars == <<"0", "1", "2", "3", "4", "5", "6", "7", "8", "9">>
IsDigit(c) == \E k \in 1..10 : DigitChars[k] = c
DigitValue(c) == (CHOOSE k \in 1..10 : DigitChars[k] = c) - 1

\* str.split(sep) for a one-character separator: always at least one part.
RECURSIVE SplitFrom(_, _, _)
SplitFrom(s, sep, part) ==
  IF s = <<>> THEN <<part>>
  ELSE IF Head(s) = sep THEN <<part>> \o SplitFrom(Tail(s), sep, <<>>)
  ELSE SplitFrom(Tail(s), sep, Append(part, Head(s)))
Split(s, sep) == SplitFrom(s, sep, <<>>)

\* int(s): the value of a non-empty digit string, ValueError otherwise.
RECURSIVE DigitsValue(_, _)
DigitsValue(s, acc) ==
  IF s = <<>> THEN acc ELSE DigitsValue(Tail(s), 10 * acc + DigitValue(Head(s)))
ParseInt(s) ==
  IF s # <<>> /\ \A k \in DOMAIN s : IsDigit(s[k])
  THEN Ok(DigitsValue(s, 0))
  ELSE Raise("ValueError")

MINYEAR == 1
MAXYEAR == 9999
IsLeap(y) == (y % 4 = 0) /\ ((y % 100 # 0) \/ (y % 400 = 0))
DaysInMonth(y, m) ==
  IF m = 2 THEN (IF IsLeap(y) THEN 29 ELSE 28)
  ELSE IF m \in {4, 6, 9, 11} THEN 30 ELSE 31

\* date(year, month, day): the date, or ValueError when out of range.
MakeDate(y, m, d) ==
  IF /\ MINYEAR <= y /\ y <= MAXYEAR
     /\ 1 <= m /\ m <= 12
     /\ 1 <= d /\ d <= DaysInMonth(y, m)
  THEN Ok([year |-> y, month |-> m, day |-> d])
  ELSE Raise("ValueError")

\* The decimal digits of n, zero-padded to width w.
RECURSIVE Pad(_, _)
Pad(n, w) ==
  IF w = 0 THEN <<>> ELSE Append(Pad(n \div 10, w - 1), DigitChars[(n % 10) + 1])

\* The decimal digits of n, as many as it has.
RECURSIVE Digits(_)
Digits(n) ==
  IF n < 10 THEN <<DigitChars[n + 1]>>
  ELSE Append(Digits(n \div 10), DigitChars[(n % 10) + 1])

\* DateStr without the zero padding: "%d-%d-%d".
DateStrUnpadded(dt) ==
  Digits(dt.year) \o <<"-">> \o Digits(dt.month) \o <<"-">> \o Digits(dt.day)

\* str(date): date.isoformat(), "%04d-%02d-%02d".
DateStr(dt) == Pad(dt.year, 4) \o <<"-">> \o Pad(dt.month, 2) \o <<"-">> \o Pad(dt.day, 2)

\* year, month, day = map(int, s.split("-")); date(year, month, day)
\* A part that is no integer, a number of parts other than 3 and a date out
\* of range all raise ValueError.
ParseDate(s) ==
  LET parts == Split(s, "-")
      ints == [k \in DOMAIN parts |-> ParseInt(parts[k])]
  IN IF \E k \in DOMAIN ints : k <= 3 /\ ints[k].exc # NoExc THEN Raise("ValueError")
     ELSE IF Len(parts) # 3 THEN Raise("ValueError")
     ELSE MakeDate(ints[1].val, ints[2].val, ints[3].val)

\* sub in s
Contains(sub, s) ==
  \E k \in 0..(Len(s) - Len(sub)) : SubSeq(s, k + 1, k + Len(sub)) = sub

(***************************************************************************)
(* JsonReader.read                                                         *)
(* A file is [exists, lines]; a line that json.loads rejects is the record *)
(* [malformed |-> TRUE], any other line is the decoded object.             *)
(***************************************************************************)
IsMalformed(json_line) == "malformed" \in DOMAIN json_line

JsonReader_read(file) ==
  IF ~file.exists THEN Raise("FileNotFoundError")
  ELSE Ok(SelectSeq(file.lines, LAMBDA json_line : ~IsMalformed(json_line)))

\* The "Invalid JSON in ..." lines read writes to stderr, one per bad line.
JsonReader_warnings(file) ==
  IF ~file.exists THEN 0
  ELSE Len(SelectSeq(file.lines, IsMalformed))

(***************************************************************************)
(* DateReportFilter.filter                                                 *)
(* The key "@timestamp" of a record is the field timestamp here.           *)
(***************************************************************************)
\* A timestamp that is JSON null decodes to None, and "str in None" raises
\* TypeError.
JsonNull == <<"null">>

\* str(target_date) in record.get("@timestamp", "")
FilterMatches(target_date, record) ==
  Contains(DateStr(target_date), Get(record, "timestamp", <<>>))

RECURSIVE FilterLoop(_, _, _)
FilterLoop(raw_data, target_date, filtered_records) ==
  IF raw_data = <<>> THEN Ok(filtered_records)
  ELSE LET record == Head(raw_data)
       IN IF Get(record, "timestamp", <<>>) = JsonNull THEN Raise("TypeError")
          ELSE FilterLoop(Tail(raw_data), target_date,
                          IF FilterMatches(target_date, record)
                          THEN Append(filtered_records, record)
                          ELSE filtered_records)

DateReportFilter_filter(raw_data, filter_value) ==
  LET target_date == ParseDate(filter_value)
  IN IF target_date.exc # NoExc THEN Raise(target_date.exc)
     ELSE FilterLoop(raw_data, target_date.val, <<>>)

(***************************************************************************)
(* round(num / den, 3) on exact rationals, in thousandths when num is: the *)
(* nearest integer to num / den, a tie going to the even one.              *)
(***************************************************************************)
\* RoundDiv cutting the quotient off instead of rounding it.
RoundDivTruncating(num, den) == num \div den

RoundDiv(num, den) ==
  LET q == num \div den
      r == num % den
  IN IF 2 * r < den THEN q
     ELSE IF 2 * r > den THEN q + 1
     ELSE IF q % 2 = 0 THEN q ELSE q + 1

(***************************************************************************)
(* AverageReportGenerator.generate                                         *)
(* While the loop runs avg_response_time holds the running sum in whole    *)
(* units (or None); the last loop replaces it by the rounded mean, in      *)
(* thousandths.  None + number, number + None and None / total raise       *)
(* TypeError.                                                              *)
(***************************************************************************)
GenerateEntry(endpoint_stats, log_entry) ==
  LET endpoint_url == Get(log_entry, "url", None)
      response_time == Get(log_entry, "response_time", NoneNum)
  IN IF endpoint_url \notin Range(endpoint_stats.keys)
     THEN Ok(DictSet(endpoint_stats, endpoint_url,
                     [handler |-> endpoint_url, total |-> 1,
                      avg_response_time |-> response_time]))
     ELSE LET stats == endpoint_stats.val[endpoint_url]
          IN IF stats.avg_response_time = NoneNum \/ response_time = NoneNum
             THEN Raise("TypeError")
             ELSE Ok(DictSet(endpoint_stats, endpoint_url,
                             [stats EXCEPT !.total = @ + 1,
                                           !.avg_response_time = @ + response_time]))

RECURSIVE GenerateLoop(_, _)
GenerateLoop(input_data, endpoint_stats) ==
  IF input_data = <<>> THEN Ok(endpoint_stats)
  ELSE LET step == GenerateEntry(endpoint_stats, Head(input_data))
       IN IF step.exc # NoExc THEN step
          ELSE GenerateLoop(Tail(input_data), step.val)

GenerateAverages(endpoint_stats) ==
  IF \E k \in Range(endpoint_stats.keys) :
       endpoint_stats.val[k].avg_response_time = NoneNum
  THEN Raise("TypeError")
  ELSE Ok([keys |-> endpoint_stats.keys,
           val |-> [k \in Range(endpoint_stats.keys) |->
                      LET stats == endpoint_stats.val[k]
                      IN [stats EXCEPT !.avg_response_time =
                            RoundDiv(1000 * stats.avg_response_time, stats.total)]]])

AverageReportGenerator_generate(input_data) ==
  IF input_data = <<>> THEN Raise("ValueError")
  ELSE LET looped == GenerateLoop(input_data, EmptyDict)
       IN IF looped.exc # NoExc THEN looped ELSE GenerateAverages(looped.val)

(***************************************************************************)
(* TableRender.render: what it raises and the table it prints, as the      *)
(* header row followed by one row per entry, in the dict's order.          *)
(***************************************************************************)
ColumnHeaders == <<"Handler", "Total", "Average Response Time">>

\* render without its guard: an empty report prints as the header alone.
RenderUnguarded(report_data) ==
  [exc |-> NoExc, val |-> None,
   printed |-> <<ColumnHeaders>> \o
               [k \in DOMAIN report_data.keys |->
                  report_data.val[report_data.keys[k]]]]

TableRender_render(report_data) ==
  IF report_data.keys = <<>>
  THEN [exc |-> "ValueError", val |-> None, printed |-> <<>>]
  ELSE [exc |-> NoExc, val |-> None,
        printed |-> <<ColumnHeaders>> \o
                    [k \in DOMAIN report_data.keys |->
                       report_data.val[report_data.keys[k]]]]

(***************************************************************************)
(* ReportEngine._validate_date                                             *)
(***************************************************************************)
\* The engine's date_value when the caller passes None.
NoDate == <<"None">>
\* bool(date_value): None and "" are false.
Truthy(date_value) == date_value # NoDate /\ date_value # <<>>

\* _validate_date accepting every string.
ValidateDateAccepting(date_str) == TRUE

_validate_date(date_str) ==
  IF ~Truthy(date_str) THEN TRUE
  ELSE ParseDate(date_str).exc = NoExc

(***************************************************************************)
(* ReportEngine._merge_statistics                                          *)
(***************************************************************************)
\* MergeEntry with the per-file average added as it is, the weight forgotten.
MergeEntryUnweighted(combined_stats, endpoint, endpoint_data) ==
  IF endpoint \notin Range(combined_stats.keys)
  THEN DictSet(combined_stats, endpoint,
               [handler |-> endpoint, total |-> endpoint_data.total,
                sum_time |-> endpoint_data.avg_response_time])
  ELSE DictSet(combined_stats, endpoint,
               [combined_stats.val[endpoint] EXCEPT
                  !.total = @ + endpoint_data.total,
                  !.sum_time = @ + endpoint_data.avg_response_time])

MergeEntry(combined_stats, endpoint, endpoint_data) ==
  IF endpoint \notin Range(combined_stats.keys)
  THEN DictSet(combined_stats, endpoint,
               [handler |-> endpoint, total |-> endpoint_data.total,
                sum_time |-> endpoint_data.avg_response_time * endpoint_data.total])
  ELSE DictSet(combined_stats, endpoint,
               [combined_stats.val[endpoint] EXCEPT
                  !.total = @ + endpoint_data.total,
                  !.sum_time = @ + endpoint_data.avg_response_time * endpoint_data.total])

\* for endpoint, endpoint_data in report.items()
RECURSIVE MergeReport(_, _, _)
MergeReport(combined_stats, report, k) ==
  IF k > Len(report.keys) THEN combined_stats
  ELSE MergeReport(MergeEntry(combined_stats, report.keys[k], report.val[report.keys[k]]),
                   report, k + 1)

\* for report in statistics_reports
RECURSIVE MergeFold(_, _)
MergeFold(combined_stats, statistics_reports) ==
  IF statistics_reports = <<>> THEN combined_stats
  ELSE MergeFold(MergeReport(combined_stats, Head(statistics_reports), 1),
                 Tail(statistics_reports))

\* sorted(items, key=total, reverse=True): a stable sort, so an item goes
\* behind every item already placed whose total is at least its own.
\* InsertByTotal as an unstable sort would place it: before its equals.
InsertBeforeEquals(sorted, item) ==
  LET n == Cardinality({k \in DOMAIN sorted : sorted[k][2].total > item[2].total})
  IN SubSeq(sorted, 1, n) \o <<item>> \o SubSeq(sorted, n + 1, Len(sorted))

InsertByTotal(sorted, item) ==
  LET n == Cardinality({k \in DOMAIN sorted : sorted[k][2].total >= item[2].total})
  IN SubSeq(sorted, 1, n) \o <<item>> \o SubSeq(sorted, n + 1, Len(sorted))

RECURSIVE SortByTotal(_, _)
SortByTotal(items, sorted) ==
  IF items = <<>> THEN sorted
  ELSE SortByTotal(Tail(items), InsertByTotal(sorted, Head(items)))

\* combined_stats.items()
Items(d) == [k \in DOMAIN d.keys |-> <<d.keys[k], d.val[d.keys[k]]>>]

FinalReport(sorted_endpoints) ==
  [keys |-> [k \in DOMAIN sorted_endpoints |-> sorted_endpoints[k][1]],
   val |-> [endpoint \in {sorted_endpoints[k][1] : k \in DOMAIN sorted_endpoints} |->
              LET index == CHOOSE k \in DOMAIN sorted_endpoints :
                             sorted_endpoints[k][1] = endpoint
                  stats == sorted_endpoints[index][2]
              IN [idx |-> index - 1, handler |-> endpoint, total |-> stats.total,
                  avg_response_time |-> RoundDiv(stats.sum_time, stats.total)]]]

\* _merge_statistics refusing an empty result itself.
MergeRejectingEmpty(statistics_reports) ==
  LET combined_stats == MergeFold(EmptyDict, statistics_reports)
      sorted_endpoints == SortByTotal(Items(combined_stats), <<>>)
  IN IF combined_stats.keys = <<>> THEN Raise("ValueError")
     ELSE Ok(FinalReport(sorted_endpoints))

_merge_statistics(statistics_reports) ==
  LET combined_stats == MergeFold(EmptyDict, statistics_reports)
      sorted_endpoints == SortByTotal(Items(combined_stats), <<>>)
  IN Ok(FinalReport(sorted_endpoints))

(***************************************************************************)
(* The inputs the model draws from.                                        *)
(***************************************************************************)
\* "2023-01-01T12:00:00", "2023-01-02T00:00:00", "2023-1-1T12:00:00"
TimeOfDay == <<"T", "1", "2", ":", "0", "0", ":", "0", "0">>
Stamp_0101 == <<"2", "0", "2", "3", "-", "0", "1", "-", "0", "1">> \o TimeOfDay
Stamp_0102 == <<"2", "0", "2", "3", "-", "0", "1", "-", "0", "2">> \o TimeOfDay
Stamp_11 == <<"2", "0", "2", "3", "-", "1", "-", "1">> \o TimeOfDay

\* "2023-01-01", "2023-01-02", "2023-1-1": dates.
Date_0101 == <<"2", "0", "2", "3", "-", "0", "1", "-", "0", "1">>
Date_0102 == <<"2", "0", "2", "3", "-", "0", "1", "-", "0", "2">>
Date_11 == <<"2", "0", "2", "3", "-", "1", "-", "1">>
\* "2023-13-01", "2023-02-29", "2023-01", "a-b-c": no dates.
Date_1301 == <<"2", "0", "2", "3", "-", "1", "3", "-", "0", "1">>
Date_0229 == <<"2", "0", "2", "3", "-", "0", "2", "-", "2", "9">>
Date_01 == <<"2", "0", "2", "3", "-", "0", "1">>
Date_abc == <<"a", "-", "b", "-", "c">>

ValidDates == {Date_0101, Date_0102, Date_11}
InvalidDates == {Date_1301, Date_0229, Date_01, Date_abc}

\* The lines a log file is made of.
LogLines ==
  {[timestamp |-> Stamp_0101, url |-> "/a", response_time |-> 100],
   [timestamp |-> Stamp_0102, url |-> "/b", response_time |-> 200],
   [timestamp |-> Stamp_0101, url |-> "/b"],
   [timestamp |-> JsonNull, url |-> "/b", response_time |-> 200],
   [malformed |-> TRUE]}

LogFiles ==
  {[exists |-> FALSE, lines |-> <<>>]} \cup
  {[exists |-> TRUE, lines |-> lines] : lines \in SeqsUpTo(LogLines, MaxLines)}

\* The arguments of run: the paths, the date and whether a filter is configured.
RunFiles == {[k \in 1..n |-> k] : n \in 0..MaxFiles}
RunDates == {NoDate, <<>>, Date_0101, Date_11, Date_1301, Date_01, Date_abc}

(***************************************************************************)
(* ReportEngine.run, one action per stage.                                 *)
(*   pc: start -> read -> filter -> generate -> append -> (read | merge)   *)
(*       -> render -> done; any stage may go to except, and on to raised.  *)
(* calls is the history of the calls made to the reader, the filter, the   *)
(* generator, _merge_statistics and the renderer.                          *)
(***************************************************************************)
VARIABLES pc, files, date_value, has_filter, log_file, raw_logs, report,
          collected_reports, final_statistics, exc, raised, stdout, stderr,
          calls, u_op, u_args, u_ret

run_vars == <<pc, files, date_value, has_filter, log_file, raw_logs, report,
              collected_reports, final_statistics, exc, raised, stderr, calls>>
unit_vars == <<u_op, u_args, u_ret>>
vars == <<run_vars, stdout, unit_vars>>

\* A call: the operation, the file of the loop it was made for (0 for merge
\* and render), what it raised, and the size of what it returned.
Call(op, k, result) ==
  [op |-> op, file |-> k, exc |-> result.exc,
   n |-> IF result.exc # NoExc \/ op = "render" THEN 0
         ELSE IF op \in {"read", "filter"} THEN Len(result.val)
         ELSE Len(result.val.keys)]

RunIdle ==
  /\ log_file = 0
  /\ raw_logs = <<>>
  /\ report = EmptyDict
  /\ collected_reports = <<>>
  /\ final_statistics = EmptyDict
  /\ exc = NoExc
  /\ raised = NoExc
  /\ stderr = <<>>
  /\ calls = <<>>

UnitIdle ==
  /\ u_op = "none"
  /\ u_args = <<>>
  /\ u_ret = <<>>

Init ==
  /\ pc = "start"
  /\ files \in RunFiles
  /\ date_value \in RunDates
  /\ has_filter \in BOOLEAN
  /\ RunIdle
  /\ stdout = <<>>
  /\ UnitIdle

\* raise inside the try block: control goes to the except clause.
Throw(e) ==
  /\ pc' = "except"
  /\ exc' = e

\* Lines 195-204: the three checks, then collected_reports = [] and the
\* first file of the loop.
Validate ==
  /\ pc = "start"
  /\ IF files = <<>> THEN Throw("ValueError") /\ UNCHANGED <<log_file, collected_reports>>
     ELSE IF Truthy(date_value) /\ ~_validate_date(date_value)
       THEN Throw("ValueError") /\ UNCHANGED <<log_file, collected_reports>>
     ELSE IF Truthy(date_value) /\ ~has_filter
       THEN Throw("ValueError") /\ UNCHANGED <<log_file, collected_reports>>
     ELSE /\ collected_reports' = <<>>
          /\ log_file' = 1
          /\ pc' = "read"
          /\ exc' = exc
  /\ UNCHANGED <<files, date_value, has_filter, raw_logs, report, final_statistics,
                 raised, stdout, stderr, calls, unit_vars>>

\* Read going on to the generator whatever the date: the filter is skipped.
ReadSkippingFilter ==
  /\ pc = "read"
  /\ \E file \in LogFiles :
       LET result == JsonReader_read(file)
       IN /\ calls' = Append(calls, Call("read", log_file, result))
          /\ stderr' = stderr \o [k \in 1..JsonReader_warnings(file) |-> "Invalid JSON"]
          /\ IF result.exc # NoExc THEN Throw(result.exc) /\ UNCHANGED raw_logs
             ELSE /\ raw_logs' = result.val
                  /\ pc' = "generate"
                  /\ exc' = exc
  /\ UNCHANGED <<files, date_value, has_filter, log_file, report, collected_reports,
                 final_statistics, raised, stdout, unit_vars>>

\* Line 206: raw_logs = self.reader.read(log_file)
Read ==
  /\ pc = "read"
  /\ \E file \in LogFiles :
       LET result == JsonReader_read(file)
       IN /\ calls' = Append(calls, Call("read", log_file, result))
          /\ stderr' = stderr \o [k \in 1..JsonReader_warnings(file) |-> "Invalid JSON"]
          /\ IF result.exc # NoExc THEN Throw(result.exc) /\ UNCHANGED raw_logs
             ELSE /\ raw_logs' = result.val
                  /\ pc' = IF Truthy(date_value) THEN "filter" ELSE "generate"
                  /\ exc' = exc
  /\ UNCHANGED <<files, date_value, has_filter, log_file, report, collected_reports,
                 final_statistics, raised, stdout, unit_vars>>

\* Lines 207-208: raw_logs = self.filter.filter(raw_logs, date_value)
Filter ==
  /\ pc = "filter"
  /\ LET result == DateReportFilter_filter(raw_logs, date_value)
     IN /\ calls' = Append(calls, Call("filter", log_file, result))
        /\ IF result.exc # NoExc THEN Throw(result.exc) /\ UNCHANGED raw_logs
           ELSE /\ raw_logs' = result.val
                /\ pc' = "generate"
                /\ exc' = exc
  /\ UNCHANGED <<files, date_value, has_filter, log_file, report, collected_reports,
                 final_statistics, raised, stdout, stderr, unit_vars>>

\* The step of the for loop: the next file, or the merge after the last.
NextFile ==
  IF log_file < Len(files)
  THEN log_file' = log_file + 1 /\ pc' = "read"
  ELSE log_file' = log_file /\ pc' = "merge"

\* Generate dropping a file that has no records instead of failing: the
\* loop goes on with the next file.
GenerateSkippingEmpty ==
  /\ pc = "generate"
  /\ LET result == AverageReportGenerator_generate(raw_logs)
     IN /\ calls' = Append(calls, Call("generate", log_file, result))
        /\ IF result.exc = "ValueError"
           THEN NextFile /\ UNCHANGED <<report, exc>>
           ELSE IF result.exc # NoExc
           THEN Throw(result.exc) /\ UNCHANGED <<report, log_file>>
           ELSE /\ report' = result.val
                /\ UNCHANGED log_file
                /\ pc' = "append" /\ exc' = exc
  /\ UNCHANGED <<files, date_value, has_filter, raw_logs, collected_reports,
                 final_statistics, raised, stdout, stderr, unit_vars>>

\* Lines 209-211: report = self.generator.generate(raw_logs), and the check
\* that it is not empty.
Generate ==
  /\ pc = "generate"
  /\ LET result == AverageReportGenerator_generate(raw_logs)
     IN /\ calls' = Append(calls, Call("generate", log_file, result))
        /\ IF result.exc # NoExc THEN Throw(result.exc) /\ UNCHANGED report
           ELSE /\ report' = result.val
                /\ IF result.val.keys = <<>> THEN Throw("ValueError")
                   ELSE pc' = "append" /\ exc' = exc
  /\ UNCHANGED <<files, date_value, has_filter, log_file, raw_logs, collected_reports,
                 final_statistics, raised, stdout, stderr, unit_vars>>

\* Line 212: collected_reports.append(self.generator.generate(raw_logs)), a
\* second call of the generator, and the step of the for loop.
AppendReport ==
  /\ pc = "append"
  /\ LET result == AverageReportGenerator_generate(raw_logs)
     IN /\ calls' = Append(calls, Call("generate", log_file, result))
        /\ IF result.exc # NoExc
           THEN Throw(result.exc) /\ UNCHANGED <<collected_reports, log_file>>
           ELSE /\ collected_reports' = Append(collected_reports, result.val)
                /\ exc' = exc
                /\ NextFile
  /\ UNCHANGED <<files, date_value, has_filter, raw_logs, report, final_statistics,
                 raised, stdout, stderr, unit_vars>>

\* Lines 214-220: the two RuntimeError checks around _merge_statistics.
Merge ==
  /\ pc = "merge"
  /\ IF collected_reports = <<>>
     THEN Throw("RuntimeError") /\ UNCHANGED <<final_statistics, calls>>
     ELSE LET result == _merge_statistics(collected_reports)
          IN /\ calls' = Append(calls, Call("merge", 0, result))
             /\ final_statistics' = result.val
             /\ IF result.val.keys = <<>> THEN Throw("RuntimeError")
                ELSE pc' = "render" /\ exc' = exc
  /\ UNCHANGED <<files, date_value, has_filter, log_file, raw_logs, report,
                 collected_reports, raised, stdout, stderr, unit_vars>>

\* Line 222: self.render.render(final_statistics)
Render ==
  /\ pc = "render"
  /\ LET result == TableRender_render(final_statistics)
     IN /\ calls' = Append(calls, Call("render", 0, result))
        /\ stdout' = stdout \o result.printed
        /\ IF result.exc # NoExc THEN Throw(result.exc)
           ELSE pc' = "done" /\ exc' = exc
  /\ UNCHANGED <<files, date_value, has_filter, log_file, raw_logs, report,
                 collected_reports, final_statistics, raised, stderr, unit_vars>>

\* Except without its raise: the failure is printed and run returns.
ExceptSwallowing ==
  /\ pc = "except"
  /\ stderr' = Append(stderr, "Fatal error during report generation")
  /\ pc' = "done"
  /\ UNCHANGED <<files, date_value, has_filter, log_file, raw_logs, report,
                 collected_reports, final_statistics, exc, raised, stdout, calls,
                 unit_vars>>

\* Lines 224-226: the except clause prints and re-raises.
Except ==
  /\ pc = "except"
  /\ stderr' = Append(stderr, "Fatal error during report generation")
  /\ raised' = exc
  /\ pc' = "raised"
  /\ UNCHANGED <<files, date_value, has_filter, log_file, raw_logs, report,
                 collected_reports, final_statistics, exc, stdout, calls, unit_vars>>

Next == Validate \/ Read \/ Filter \/ Generate \/ AppendReport \/ Merge \/ Render \/ Except

Spec == Init /\ [][Next]_vars

(***************************************************************************)
(* The components called on their own, as the unit tests call them: the    *)
(* initial state holds the call and its arguments, the action makes it.    *)
(* A report that _merge_statistics returned is then handed to render.      *)
(***************************************************************************)
FilterRecords ==
  {[timestamp |-> stamp, url |-> "/a", response_time |-> 100] :
     stamp \in {Stamp_0101, Stamp_0102, Stamp_11, JsonNull}}
  \cup {[timestamp |-> Stamp_0101, url |-> "/b", response_time |-> 100],
        [url |-> "/a", response_time |-> 100]}

FilterArgs ==
  [raw_data : SeqsUpTo(FilterRecords, MaxRecords),
   filter_value : ValidDates \cup InvalidDates \cup {<<>>}]

GenerateRecords ==
  [url : {"/a", "/b"}, response_time : {100, 200}]
  \cup {[url |-> "/a"], [response_time |-> 100]}

GenerateArgs == [input_data : SeqsUpTo(GenerateRecords, MaxRecords)]

\* Per-file statistics: the dicts over the endpoints, in every key order.
Endpoints == {"/a", "/b"}
Averages == {1000, 1500}
KeyOrders == {<<>>, <<"/a">>, <<"/b">>, <<"/a", "/b">>, <<"/b", "/a">>}
Statistic(endpoint) ==
  [handler : {endpoint}, total : 1..MaxTotal, avg_response_time : Averages]
PerFileStatistics ==
  UNION {{[keys |-> ks, val |-> v] :
            v \in {f \in [Range(ks) -> UNION {Statistic(e) : e \in Endpoints}] :
                     \A e \in Range(ks) : f[e].handler = e}} :
         ks \in KeyOrders}

MergeArgs == [statistics_reports : SeqsUpTo(PerFileStatistics, MaxReports)]

Pending == [exc |-> "pending", val |-> None]

InitUnit ==
  /\ pc = "call"
  /\ files = <<>>
  /\ date_value = NoDate
  /\ has_filter = TRUE
  /\ RunIdle
  /\ stdout = <<>>
  /\ \/ u_op = "filter" /\ u_args \in FilterArgs
     \/ u_op = "generate" /\ u_args \in GenerateArgs
     \/ u_op = "merge" /\ u_args \in MergeArgs
  /\ u_ret = Pending

CallFilter ==
  /\ pc = "call" /\ u_op = "filter"
  /\ u_ret' = DateReportFilter_filter(u_args.raw_data, u_args.filter_value)
  /\ pc' = "returned"
  /\ UNCHANGED <<files, date_value, has_filter, log_file, raw_logs, report,
                 collected_reports, final_statistics, exc, raised, stderr, calls,
                 stdout, u_op, u_args>>

CallGenerate ==
  /\ pc = "call" /\ u_op = "generate"
  /\ u_ret' = AverageReportGenerator_generate(u_args.input_data)
  /\ pc' = "returned"
  /\ UNCHANGED <<files, date_value, has_filter, log_file, raw_logs, report,
                 collected_reports, final_statistics, exc, raised, stderr, calls,
                 stdout, u_op, u_args>>

CallMerge ==
  /\ pc = "call" /\ u_op = "merge"
  /\ u_ret' = _merge_statistics(u_args.statistics_reports)
  /\ pc' = "returned"
  /\ UNCHANGED <<files, date_value, has_filter, log_file, raw_logs, report,
                 collected_reports, final_statistics, exc, raised, stderr, calls,
                 stdout, u_op, u_args>>

CallRender ==
  /\ pc = "returned" /\ u_op = "merge" /\ u_ret.exc = NoExc
  /\ LET result == TableRender_render(u_ret.val)
     IN /\ u_ret' = [exc |-> result.exc, val |-> result.val]
        /\ stdout' = stdout \o result.printed
  /\ u_op' = "render"
  /\ u_args' = [report_data |-> u_ret.val]
  /\ UNCHANGED <<pc, files, date_value, has_filter, log_file, raw_logs, report,
                 collected_reports, final_statistics, exc, raised, stderr, calls>>

NextUnit == CallFilter \/ CallGenerate \/ CallMerge \/ CallRender

SpecUnit == InitUnit /\ [][NextUnit]_vars

(***************************************************************************)
(* What the claims speak of.                                               *)
(***************************************************************************)
Abs(x) == IF x < 0 THEN -x ELSE x

\* m is num / den rounded to the nearest integer, a tie to the even one.
IsRounded(m, num, den) ==
  \/ 2 * Abs(num - m * den) < den
  \/ 2 * Abs(num - m * den) = den /\ m % 2 = 0

NoRepeats(s) == \A k, l \in DOMAIN s : s[k] = s[l] => k = l

Last(s) == s[Len(s)]

MergeReturned == pc = "returned" /\ u_op = "merge"

\* The endpoints of the per-file mappings, file after file, each mapping in
\* its own order: the order in which the fold meets them.
RECURSIVE Encountered(_)
Encountered(statistics_reports) ==
  IF statistics_reports = <<>> THEN <<>>
  ELSE Head(statistics_reports).keys \o Encountered(Tail(statistics_reports))

FirstSeen(endpoint, order) ==
  CHOOSE k \in DOMAIN order :
    order[k] = endpoint /\ \A l \in 1..(k - 1) : order[l] # endpoint

\* Per file, an endpoint's total and its total * avg (0 where it is absent).
FileTotals(statistics_reports, endpoint) ==
  [i \in DOMAIN statistics_reports |->
     IF endpoint \in Range(statistics_reports[i].keys)
     THEN statistics_reports[i].val[endpoint].total ELSE 0]

FileTimes(statistics_reports, endpoint) ==
  [i \in DOMAIN statistics_reports |->
     IF endpoint \in Range(statistics_reports[i].keys)
     THEN statistics_reports[i].val[endpoint].total *
          statistics_reports[i].val[endpoint].avg_response_time
     ELSE 0]

\* C1: the merged report has exactly the endpoints of the per-file mappings;
\* an endpoint's merged total is the sum of its per-file totals and its
\* merged avg_response_time is the sum of total_i * avg_i over the sum of
\* total_i, rounded to 3 decimals.
C1_MergeArithmetic ==
  MergeReturned =>
    LET reports == u_args.statistics_reports
        final == u_ret.val
    IN /\ u_ret.exc = NoExc
       /\ NoRepeats(final.keys)
       /\ Range(final.keys) = UNION {Range(reports[i].keys) : i \in DOMAIN reports}
       /\ \A endpoint \in Range(final.keys) :
            /\ final.val[endpoint].handler = endpoint
            /\ final.val[endpoint].total = SeqSum(FileTotals(reports, endpoint))
            /\ IsRounded(final.val[endpoint].avg_response_time,
                         SeqSum(FileTimes(reports, endpoint)),
                         SeqSum(FileTotals(reports, endpoint)))

\* "/a" is in both of two files, with different totals and averages, and
\* its weighted mean is not a whole number of thousandths.
C1_Witness ==
  /\ MergeReturned
  /\ Len(u_args.statistics_reports) = 2
  /\ \A i \in 1..2 : "/a" \in Range(u_args.statistics_reports[i].keys)
  /\ u_args.statistics_reports[1].val["/a"] =
       [handler |-> "/a", total |-> 2, avg_response_time |-> 1000]
  /\ u_args.statistics_reports[2].val["/a"] =
       [handler |-> "/a", total |-> 1, avg_response_time |-> 1500]
  /\ u_ret.val.val["/a"].total = 3
  /\ u_ret.val.val["/a"].avg_response_time = 1167

\* C2: in the merged report idx is the 0-based position, total never grows
\* from one entry to the next, and endpoints of equal total stand in the
\* order in which the fold first met them.
C2_Ranking ==
  MergeReturned =>
    LET order == Encountered(u_args.statistics_reports)
        final == u_ret.val
    IN \A k \in DOMAIN final.keys :
         /\ final.val[final.keys[k]].idx = k - 1
         /\ \A l \in DOMAIN final.keys :
              k < l =>
                /\ final.val[final.keys[k]].total >= final.val[final.keys[l]].total
                /\ final.val[final.keys[k]].total = final.val[final.keys[l]].total
                     => FirstSeen(final.keys[k], order) < FirstSeen(final.keys[l], order)

\* "/b" is met first, "/a" overtakes nothing: both end with total 2, and
\* the second file lists "/a" before "/b".
C2_Witness ==
  /\ MergeReturned
  /\ Len(u_args.statistics_reports) = 2
  /\ u_args.statistics_reports[1].keys = <<"/b">>
  /\ u_args.statistics_reports[2].keys = <<"/a", "/b">>
  /\ u_ret.val.keys = <<"/b", "/a">>
  /\ u_ret.val.val["/b"].total = 2
  /\ u_ret.val.val["/a"].total = 2
  /\ u_ret.val.val["/a"].idx = 1

AllEmpty(statistics_reports) ==
  \A i \in DOMAIN statistics_reports : statistics_reports[i].keys = <<>>

GenerateReturned == pc = "returned" /\ u_op = "generate"
RenderReturned == pc = "returned" /\ u_op = "render"

\* C7: generate of an empty record sequence raises ValueError and returns
\* no mapping; render of an empty report raises ValueError and writes
\* nothing.
C7_EmptyInputGuards ==
  /\ GenerateReturned /\ u_args.input_data = <<>> => u_ret = Raise("ValueError")
  /\ RenderReturned /\ u_args.report_data.keys = <<>> =>
       /\ u_ret = Raise("ValueError")
       /\ stdout = <<>>
  /\ RenderReturned /\ u_args.report_data.keys # <<>> =>
       /\ u_ret.exc = NoExc
       /\ Len(stdout) = 1 + Len(u_args.report_data.keys)

\* generate was called with no record and raised ValueError.
C7_Witness ==
  /\ GenerateReturned
  /\ u_args.input_data = <<>>
  /\ u_ret.exc = "ValueError"

\* The records of input_data with the given url, as positions.
WithUrl(input_data, url) == {k \in DOMAIN input_data : input_data[k].url = url}

RECURSIVE SetSum(_, _)
SetSum(S, input_data) ==
  IF S = {} THEN 0
  ELSE LET k == CHOOSE x \in S : TRUE
       IN input_data[k].response_time + SetSum(S \ {k}, input_data)

\* C8: for a non-empty sequence of records that each carry a url and a
\* response time, generate returns a mapping whose keys are the distinct urls
\* in first-seen order; an entry's handler is its key, its total the number
\* of records with that url, its avg_response_time the mean of their
\* response times rounded to 3 decimals.
C8_GenerateMeans ==
  LET input_data == u_args.input_data
  IN /\ GenerateReturned
     /\ input_data # <<>>
     /\ \A k \in DOMAIN input_data : DOMAIN input_data[k] = {"url", "response_time"}
     => LET stats == u_ret.val
            urls == [k \in DOMAIN input_data |-> input_data[k].url]
        IN /\ u_ret.exc = NoExc
           /\ NoRepeats(stats.keys)
           /\ Range(stats.keys) = Range(urls)
           /\ \A k, l \in DOMAIN stats.keys :
                k < l => FirstSeen(stats.keys[k], urls) < FirstSeen(stats.keys[l], urls)
           /\ \A url \in Range(stats.keys) :
                /\ stats.val[url].handler = url
                /\ stats.val[url].total = Cardinality(WithUrl(input_data, url))
                /\ IsRounded(stats.val[url].avg_response_time,
                             1000 * SetSum(WithUrl(input_data, url), input_data),
                             Cardinality(WithUrl(input_data, url)))

\* "/b" once and then "/a" three times, 100, 200 and 200: a mean of
\* 166.667.
C8_Witness ==
  /\ GenerateReturned
  /\ u_args.input_data =
       <<[url |-> "/b", response_time |-> 100], [url |-> "/a", response_time |-> 100],
         [url |-> "/a", response_time |-> 200], [url |-> "/a", response_time |-> 200]>>
  /\ u_ret.exc = NoExc
  /\ u_ret.val.keys = <<"/b", "/a">>
  /\ u_ret.val.val["/a"] = [handler |-> "/a", total |-> 3, avg_response_time |-> 166667]
  /\ u_ret.val.val["/b"] = [handler |-> "/b", total |-> 1, avg_response_time |-> 100000]

FilterReturned == pc = "returned" /\ u_op = "filter"

\* The timestamp of every record is a string, where there is one.
StringStamps(raw_data) ==
  \A k \in DOMAIN raw_data : Get(raw_data[k], "timestamp", <<>>) # JsonNull

\* The calendar date a criterion stands for, as YYYY-MM-DD.
IsoForm(filter_value) == IF filter_value = Date_11 THEN Date_0101 ELSE filter_value

DateSupplied == date_value \in ValidDates \cup InvalidDates

Failed == pc \in {"except", "raised"}

\* The arguments that run must refuse.
BadArguments ==
  \/ files = <<>>
  \/ DateSupplied /\ date_value \in InvalidDates
  \/ DateSupplied /\ ~has_filter

\* C3: with an empty file list, a supplied date that is no calendar date, or
\* a supplied date and no filter configured, run fails with ValueError and
\* never calls the reader, the filter, the generator or the renderer.
C3_ValidationFirst ==
  BadArguments /\ pc # "start" =>
    /\ Failed
    /\ exc = "ValueError"
    /\ pc = "raised" => raised = "ValueError"
    /\ calls = <<>>
    /\ stdout = <<>>

\* run with a file and the date "2023-13-01" has raised ValueError.
C3_Witness ==
  /\ pc = "raised"
  /\ files # <<>>
  /\ date_value = Date_1301
  /\ has_filter
  /\ raised = "ValueError"
  /\ calls = <<>>

\* What holds in every state of a run: a call that raised is the last call
\* made and its exception is the one in flight; what reaches the caller is
\* that exception; a failed run has rendered nothing.
C4_AbortState ==
  /\ \A k \in DOMAIN calls :
       calls[k].exc # NoExc => k = Len(calls) /\ Failed /\ exc = calls[k].exc
  /\ exc # NoExc <=> Failed
  /\ pc = "raised" <=> raised # NoExc
  /\ pc = "raised" => raised = exc
  /\ Failed => stdout = <<>> /\ \A k \in DOMAIN calls : calls[k].op # "render"
  /\ pc = "done" => stdout # <<>> /\ Last(calls).op = "render"

\* What a step from a failed state does: no call, no output, and the
\* exception in flight is raised to the caller.
C4_AbortStep ==
  Failed => /\ calls' = calls
            /\ stdout' = stdout
            /\ exc' = exc
            /\ pc' = "raised"
            /\ raised' = exc

\* C4: a failure at any stage (validation, read, filter, aggregate, merge,
\* render) ends the run at once: the failed call is the last call made,
\* from the failure on no reader, filter, generator or renderer call is made
\* and nothing is rendered, and the same failure is raised to the caller.
C4_FailureAborts == [](C4_AbortState) /\ [][C4_AbortStep]_vars

\* Two files and a date: the filter raised TypeError on the first file, the
\* second was never read, and TypeError reached the caller.
C4_Witness ==
  /\ pc = "raised"
  /\ Len(files) = 2
  /\ Len(calls) = 2
  /\ calls[1] = [op |-> "read", file |-> 1, exc |-> NoExc, n |-> 2]
  /\ calls[2] = [op |-> "filter", file |-> 1, exc |-> "TypeError", n |-> 0]
  /\ raised = "TypeError"
  /\ stdout = <<>>

\* Call k is the one that yields the records of its file: the filter call
\* when a date is supplied, the read call otherwise.
YieldsRecords(k) ==
  /\ calls[k].exc = NoExc
  /\ calls[k].op = IF DateSupplied THEN "filter" ELSE "read"

\* C5: when a file yields no record after reading and filtering, the run
\* fails with ValueError at the aggregation of that file and nothing is
\* rendered; when the renderer is called, every file of the list yielded
\* records and contributed a non-empty mapping to the merge.
C5_EveryFileContributes ==
  /\ \A k \in DOMAIN calls :
       YieldsRecords(k) /\ calls[k].n = 0 /\ k < Len(calls) =>
         /\ Len(calls) = k + 1
         /\ calls[k + 1] = [op |-> "generate", file |-> calls[k].file,
                            exc |-> "ValueError", n |-> 0]
         /\ Failed
         /\ exc = "ValueError"
         /\ stdout = <<>>
  /\ (\E k \in DOMAIN calls : calls[k].op = "render") =>
       /\ Len(collected_reports) = Len(files)
       /\ \A f \in DOMAIN files :
            /\ collected_reports[f].keys # <<>>
            /\ \E k \in DOMAIN calls :
                 YieldsRecords(k) /\ calls[k].file = f /\ calls[k].n > 0

\* Two files and the date "2023-01-01": the first file has a matching
\* record and is aggregated, the second has a record of another day only;
\* the run has failed with ValueError and printed nothing.
C5_Witness ==
  /\ pc = "raised"
  /\ raised = "ValueError"
  /\ Len(files) = 2
  /\ date_value = Date_0101
  /\ Len(collected_reports) = 1
  /\ collected_reports[1].keys = <<"/a">>
  /\ Len(calls) = 7
  /\ calls[5] = [op |-> "read", file |-> 2, exc |-> NoExc, n |-> 1]
  /\ calls[6] = [op |-> "filter", file |-> 2, exc |-> NoExc, n |-> 0]
  /\ calls[7] = [op |-> "generate", file |-> 2, exc |-> "ValueError", n |-> 0]
  /\ stdout = <<>>

Returned(k, op, f) == calls[k].op = op /\ calls[k].file = f /\ calls[k].exc = NoExc

\* C10: the stages of a run come in order.  Nothing is called before the
\* arguments are validated; the first call reads the first file; a file is
\* read only after the aggregation of the file before it has returned; the
\* filter is called, on what the read of the same file returned, exactly
\* when a date is supplied, and the generator on what came out of it; the
\* merge starts only when every file has been aggregated; render is called
\* only on a non-empty report that the merge returned, and is the last call.
C10_StageOrder ==
  /\ pc = "start" => calls = <<>>
  /\ calls # <<>> => ~BadArguments /\ calls[1].op = "read" /\ calls[1].file = 1
  /\ \A k \in DOMAIN calls :
       LET c == calls[k]
       IN /\ c.op \in {"read", "filter", "generate"} => c.file \in DOMAIN files
          /\ c.op = "read" /\ k > 1 => Returned(k - 1, "generate", c.file - 1)
          /\ c.op = "filter" => DateSupplied /\ Returned(k - 1, "read", c.file)
          /\ c.op = "generate" =>
               \/ Returned(k - 1, IF DateSupplied THEN "filter" ELSE "read", c.file)
               \/ Returned(k - 1, "generate", c.file)
          /\ c.op = "read" /\ c.exc = NoExc /\ k < Len(calls) =>
               calls[k + 1].op = IF DateSupplied THEN "filter" ELSE "generate"
          /\ c.op = "merge" =>
               /\ \A f \in DOMAIN files : \E j \in 1..(k - 1) : Returned(j, "generate", f)
               /\ Returned(k - 1, "generate", Len(files))
          /\ c.op = "render" =>
               /\ Returned(k - 1, "merge", 0)
               /\ calls[k - 1].n > 0
               /\ k = Len(calls)

\* A run over two files with a date, done: read, filter, generate (twice)
\* for the first file, the same for the second, then merge, then render.
C10_Witness ==
  /\ pc = "done"
  /\ Len(files) = 2
  /\ date_value = Date_0101
  /\ [k \in DOMAIN calls |-> <<calls[k].op, calls[k].file>>] =
       << <<"read", 1>>, <<"filter", 1>>, <<"generate", 1>>, <<"generate", 1>>,
          <<"read", 2>>, <<"filter", 2>>, <<"generate", 2>>, <<"generate", 2>>,
          <<"merge", 0>>, <<"render", 0>> >>
  /\ stdout # <<>>

\* The number of calls of op that run has made.
CallCount(op) == Cardinality({k \in DOMAIN calls : calls[k].op = op})

\* The calls of the generator made for file f, as positions in calls.
GenerateCalls(f) == {k \in DOMAIN calls : calls[k].op = "generate" /\ calls[k].file = f}

\* What a successful run over n files hands to the merge: n per-file
\* mappings, the k-th with the endpoints the aggregation of file k returned.
OneMappingPerFile ==
  /\ Len(collected_reports) = Len(files)
  /\ \A f \in DOMAIN files :
       /\ GenerateCalls(f) # {}
       /\ \A k \in GenerateCalls(f) :
            calls[k].exc = NoExc /\ calls[k].n = Len(collected_reports[f].keys)

\* C11: in a successful run over n files the reader is called n times, the
\* generator n times, the filter n times when a date is supplied and never
\* otherwise, and the merge is handed n per-file mappings, the k-th being
\* the aggregation result of file k.
C11_OncePerFile ==
  pc = "done" =>
    /\ CallCount("read") = Len(files)
    /\ CallCount("generate") = Len(files)
    /\ CallCount("filter") = IF DateSupplied THEN Len(files) ELSE 0
    /\ CallCount("merge") = 1
    /\ CallCount("render") = 1
    /\ OneMappingPerFile

\* What run does: the same, with the generator called twice for every
\* file, once for the emptiness check and once for the mapping it appends.
RunCallCounts ==
  pc = "done" =>
    /\ CallCount("read") = Len(files)
    /\ \A f \in DOMAIN files : Cardinality(GenerateCalls(f)) = 2
    /\ CallCount("generate") = 2 * Len(files)
    /\ CallCount("filter") = IF DateSupplied THEN Len(files) ELSE 0
    /\ CallCount("merge") = 1
    /\ CallCount("render") = 1
    /\ OneMappingPerFile

=============================================================================
